---- MODULE Spec2Model ----
(***************************************************************************)
(* The LangGraph workflow of Agent/graph.py: retrieve -> agent ->          *)
(* (tools -> agent)* -> END, over the AgentState {messages,                *)
(* relevant_datasets}.  The chat model, the vector store and the tools are *)
(* external: their answers are drawn from bounded sets.                    *)
(***************************************************************************)
EXTENDS Integers, Sequences, FiniteSets, TLC

VARIABLES
    stage,              \* the graph node about to run, END, or "error" (an exception left app.invoke)
    messages,           \* AgentState["messages"]
    relevant_datasets,  \* AgentState["relevant_datasets"]
    answers,            \* the vector store's answer to each query string
    exception,          \* what was raised during the run, "none" if nothing
    run_id,             \* api.query_agent: the uuid of the request
    response,           \* api.query_agent: the HTTP response, status 0 while pending
    events,             \* logs/agent.log: the entries log_step wrote, oldest first
    final_answer,       \* interface.query_agent: the stream chunks accumulated so far
    reply_in,           \* a chat-model reply text, before agent_node's post-processing
    reply_out,          \* that text after the post-processing passes made so far
    passes,             \* number of post-processing passes made on reply_in
    earlier,            \* the dataset list an earlier retrieval of the same question returned
    replays,            \* number of retrievals of the question that were followed by another
    rating_file,        \* logs/ratings.json
    raters,             \* the calls of save_rating: position, locals, and what they found
    files,              \* the data directory: what each path holds, << >> if no file
    returned,           \* what the join tools returned so far, in call order
    run_stage,          \* concurrent runs: the node each run is about to execute
    states,             \* concurrent runs: the AgentState in each state slot
    wrote,              \* concurrent runs: what the steps of each run put into its state
    held,               \* tool calls of concurrent runs: the path last returned to each run, and what was saved there
    read_back,          \* tool calls of concurrent runs: what each run's next tool call read at that path
    data_dir,           \* the descriptors of the files in the data directory
    collection,         \* the documents' metadata in the vector store, in insertion order
    ingests,            \* number of ingestions made
    hits                \* what the last similarity search returned

\* the request of api.query_agent and its run of the graph
runVars == <<stage, messages, relevant_datasets, answers, exception, run_id, response>>
\* what the run leaves outside its state: the log and the streamed text
obsVars == <<events, final_answer>>
\* the reply text under post-processing
postVars == <<reply_in, reply_out, passes>>

\* a retrieval replayed
replayVars == <<earlier, replays>>

\* the rating store and the calls writing to it
rateVars == <<rating_file, raters>>

\* the files of the join tools
joinVars == <<files, returned>>
\* the runs served at the same time
multiVars == <<run_stage, states, wrote>>

\* the tool calls of concurrent runs on the shared files
callVars == <<held, read_back>>
\* the catalog and its ingestion
catalogVars == <<data_dir, collection, ingests, hits>>

vars == <<runVars, obsVars, postVars, replayVars, rateVars, joinVars, multiVars,
          callVars, catalogVars>>

\* what the steps of a run, of the post-processing, of a replay, of
\* save_rating, of the join tools, of concurrent runs, of their tool calls
\* and of the catalog leave alone
nonRun == <<postVars, replayVars, rateVars, joinVars, multiVars, callVars, catalogVars>>
nonPost == <<runVars, obsVars, replayVars, rateVars, joinVars, multiVars, callVars, catalogVars>>
nonReplay == <<final_answer, postVars, rateVars, joinVars, multiVars, callVars, catalogVars>>
nonRate == <<runVars, obsVars, postVars, replayVars, joinVars, multiVars, callVars, catalogVars>>
nonJoin == <<runVars, obsVars, postVars, replayVars, rateVars, multiVars, callVars, catalogVars>>
nonMulti == <<runVars, obsVars, postVars, replayVars, rateVars, joinVars, callVars, catalogVars>>
nonCall == <<runVars, obsVars, postVars, replayVars, rateVars, returned, multiVars, catalogVars>>
nonCatalog == <<runVars, obsVars, postVars, replayVars, rateVars, joinVars, multiVars, callVars>>

---------------------------------------------------------------------------
(* Bounds of the model *)

\* tool-call requests one assistant message carries, at most
MaxCalls == 2
\* the cap on Reason->Dispatch round-trips the spec asks for; the source
\* configures none, and the model follows a run one round-trip beyond it
StepCap == 1
\* descriptors the primary query returns, at most
MaxPrimaryHits == 2
\* descriptors the six supplemental queries return altogether, at most
MaxSuppHits == 2
\* parts (a token or a plot path) of a chat-model reply text, at most
MaxParts == 4

\* calls of the join tools, at most
MaxJoins == 2
\* runs served at the same time, at most
MaxRuns == 2
\* ingestions into the vector store, at most
MaxIngests == 3

\* concurrent calls of save_rating, at most
MaxRaters == 2

\* retrievals of the same question after the first, at most
MaxReplays == 1

MaxRounds == StepCap + 1

---------------------------------------------------------------------------
(* Program constants *)

K_DEFAULT == 5
K_BOUNDARY == 2
K_POI == 3
K_CULTURE == 5
K_GENERAL == 5
K_NOISE == 10
K_HOUSING == 5

END == "__end__"

\* the edges of the graph (workflow.set_entry_point, workflow.add_edge)
ENTRY_POINT == "retrieve"
\* an edge from retrieve straight to the end
EdgeAfterRetrieve_to_end == "__end__"
EdgeAfterRetrieve == "agent"
\* the tools node wired back to the entry point
EdgeAfterTools_to_retrieve == "retrieve"
EdgeAfterTools == "agent"

\* the supplemental queries of retrieve_node, in the order their results are concatenated
SUPPLEMENTAL ==
    << [query |-> << "administrative boundaries of Lisbon" >>, k |-> K_BOUNDARY],
       [query |-> << "restaurants cafes shops hotels" >>, k |-> K_POI],
       [query |-> << "museums theaters cinemas galleries art" >>, k |-> K_CULTURE],
       [query |-> << "environment air quality population architecture" >>, k |-> K_GENERAL],
       [query |-> << "noise sound pollution" >>, k |-> K_NOISE],
       [query |-> << "housing property prices real estate apartment" >>, k |-> K_HOUSING] >>

\* the keys of tool_map
TOOL_MAP ==
    { "load_geojson", "spatial_join", "attribute_join", "analyze_data",
      "find_nearest", "get_street_network", "web_search" }

---------------------------------------------------------------------------
(* Inputs *)

\* a text is a sequence of tokens; a text that is never taken apart is one token
Text(s) == << s >>

Question == Text("restaurants in Avenidas Novas")

\* dataset descriptors (doc.metadata): two files of the same basename in
\* different directories, and a third file
Docs ==
    { [filename |-> "a.geojson", source |-> "data/x/a.geojson"],
      [filename |-> "a.geojson", source |-> "data/y/a.geojson"],
      [filename |-> "b.geojson", source |-> "data/x/b.geojson"] }

SeqsUpTo(S, n) == UNION { [1..m -> S] : m \in 0..n }

Min(a, b) == IF a < b THEN a ELSE b

QueryStrings == { Question } \cup { SUPPLEMENTAL[i].query : i \in 1..Len(SUPPLEMENTAL) }

\* the hits <<i, d>> of h that belong to supplemental query i, in order
RECURSIVE HitsOf(_, _)
HitsOf(h, i) ==
    IF h = << >> THEN << >>
    ELSE IF h[1][1] = i THEN << h[1][2] >> \o HitsOf(Tail(h), i)
         ELSE HitsOf(Tail(h), i)

\* sequences of at most n hits <<query index, descriptor>>, grouped by query,
\* no query returning more than its k
SuppHitSeqs(n) ==
    { h \in SeqsUpTo((1..Len(SUPPLEMENTAL)) \X Docs, n) :
        /\ \A j \in 1..(Len(h) - 1) : h[j][1] <= h[j + 1][1]
        /\ \A i \in 1..Len(SUPPLEMENTAL) : Len(HitsOf(h, i)) <= SUPPLEMENTAL[i].k }

\* the vector store as a function from query string to result list: at most
\* p descriptors for the question, at most s for the supplemental queries
AnswerSets(p, s) ==
    { [q \in QueryStrings |->
          IF q = Question THEN prim
          ELSE HitsOf(h, CHOOSE i \in 1..Len(SUPPLEMENTAL) : SUPPLEMENTAL[i].query = q)] :
        prim \in SeqsUpTo(Docs, Min(p, K_DEFAULT)), h \in SuppHitSeqs(s) }

\* observability.py: the entry log_step writes (its timestamp is the entry's
\* place in the log)
log_step(step_name, input_data, output_data) ==
    [step |-> step_name, input |-> input_data, output |-> output_data]

HumanMessage(content) ==
    [type |-> "human", content |-> content, tool_calls |-> << >>,
     tool_call_id |-> << >>, name |-> ""]

---------------------------------------------------------------------------
(* rag.py *)

\* VectorStoreManager.retrieve_datasets: the metadata of the store's hits
retrieve_datasets(query, k) == answers[query]

---------------------------------------------------------------------------
(* graph.py: retrieve_node *)

\* the loop of lines 49-52 over the concatenated supplemental results
\* the loop with datasets.insert(0, d) for datasets.append(d)
RECURSIVE MergeLoop_prepend(_, _, _)
MergeLoop_prepend(datasets, seen_files, rest) ==
    IF rest = << >> THEN datasets
    ELSE IF rest[1].filename \notin seen_files
         THEN MergeLoop_prepend(<< rest[1] >> \o datasets,
                                seen_files \cup { rest[1].filename }, Tail(rest))
         ELSE MergeLoop_prepend(datasets, seen_files, Tail(rest))

RECURSIVE MergeLoop(_, _, _)
MergeLoop(datasets, seen_files, rest) ==
    IF rest = << >> THEN datasets
    ELSE IF rest[1].filename \notin seen_files
         THEN MergeLoop(Append(datasets, rest[1]),
                        seen_files \cup { rest[1].filename }, Tail(rest))
         ELSE MergeLoop(datasets, seen_files, Tail(rest))

\* the concatenation without the last supplemental result (housing_datasets)
RECURSIVE ConcatResults_without_last(_)
ConcatResults_without_last(i) ==
    IF i > Len(SUPPLEMENTAL) - 1 THEN << >>
    ELSE retrieve_datasets(SUPPLEMENTAL[i].query, SUPPLEMENTAL[i].k)
             \o ConcatResults_without_last(i + 1)

RECURSIVE ConcatResults(_)
ConcatResults(i) ==
    IF i > Len(SUPPLEMENTAL) THEN << >>
    ELSE retrieve_datasets(SUPPLEMENTAL[i].query, SUPPLEMENTAL[i].k) \o ConcatResults(i + 1)

\* the merge with a seen_files that outlives the call: the filenames of an
\* earlier retrieval are still in it
MergeDatasets_seen_kept(last_message) ==
    LET datasets == retrieve_datasets(last_message, K_DEFAULT)
        seen_files == { datasets[i].filename : i \in 1..Len(datasets) }
                          \cup { earlier[i].filename : i \in 1..Len(earlier) }
    IN  MergeLoop(datasets, seen_files, ConcatResults(1))

MergeDatasets(last_message) ==
    LET datasets == retrieve_datasets(last_message, K_DEFAULT)
        seen_files == { datasets[i].filename : i \in 1..Len(datasets) }
    IN  MergeLoop(datasets, seen_files, ConcatResults(1))

retrieve_node ==
    /\ stage = "retrieve"
    /\ relevant_datasets' = MergeDatasets(messages[Len(messages)].content)
    /\ events' = Append(events,
           log_step("retrieve", [query |-> messages[Len(messages)].content],
                    [datasets |-> [i \in 1..Len(relevant_datasets') |->
                                      relevant_datasets'[i].filename]]))
    /\ stage' = EdgeAfterRetrieve
    /\ UNCHANGED <<messages, answers, exception, run_id, response, final_answer>>
    /\ UNCHANGED nonRun

\* the failure swallowed: the run goes on with an empty dataset list
retrieve_node_swallows ==
    /\ stage = "retrieve"
    /\ exception' = "RetrievalError"
    /\ relevant_datasets' = << >>
    /\ stage' = EdgeAfterRetrieve
    /\ UNCHANGED <<messages, answers, run_id, response, obsVars>>
    /\ UNCHANGED nonRun

\* a query of the vector store raises: nothing catches it in retrieve_node,
\* and the exception leaves app.invoke
retrieve_node_raises ==
    /\ stage = "retrieve"
    /\ exception' = "RetrievalError"
    /\ stage' = "error"
    /\ UNCHANGED <<messages, relevant_datasets, answers, run_id, response, obsVars>>
    /\ UNCHANGED nonRun

---------------------------------------------------------------------------

(* graph.py: agent_node's post-processing of the reply text (lines 112-127) *)

\* [^\s\n"]: a token that is neither whitespace nor a double quote
IsPathChar(t) == t \notin { " ", "\n\n", "\"" }

\* the greedy [^\s\n"]+\.png after a "data/plots/" at position i: the scan
\* from position j keeps the last ".png" that has at least one character
\* between it and "data/plots/"; 0 when there is none
RECURSIVE GreedyEnd(_, _, _, _)
GreedyEnd(content, i, j, best) ==
    IF j > Len(content) \/ ~IsPathChar(content[j]) THEN best
    ELSE GreedyEnd(content, i, j + 1,
                   IF content[j] = ".png" /\ j >= i + 2 THEN j ELSE best)

\* re.search(r'(data/plots/[^\s\n"]+\.png)', content) from position i on:
\* <<first, last>> of the leftmost match, << >> when nothing matches
RECURSIVE ReSearch(_, _)
ReSearch(content, i) ==
    IF i > Len(content) THEN << >>
    ELSE IF content[i] = "data/plots/" /\ GreedyEnd(content, i, i + 1, 0) # 0
         THEN << i, GreedyEnd(content, i, i + 1, 0) >>
         ELSE ReSearch(content, i + 1)

Contains(content, t) == \E i \in 1..Len(content) : content[i] = t

\* f"\n\n![Generated Plot]({plot_path})"
PlotReference(plot_path) ==
    << "\n\n", "![", "Generated", " ", "Plot](" >> \o plot_path \o << ")" >>

\* the post-processing without the check for an image already in the text
PostProcess_always_append(content) ==
    IF Contains(content, "data/plots/") /\ Contains(content, ".png")
    THEN LET match == ReSearch(content, 1)
         IN  IF match # << >>
             THEN content \o PlotReference(SubSeq(content, match[1], match[2]))
             ELSE content
    ELSE content

PostProcess(content) ==
    IF Contains(content, "data/plots/") /\ Contains(content, ".png")
    THEN LET match == ReSearch(content, 1)
         IN  IF match # << >>
             THEN LET plot_path == SubSeq(content, match[1], match[2])
                  IN  IF ~Contains(content, "![")
                      THEN content \o PlotReference(plot_path)
                      ELSE content
             ELSE content
    ELSE content

\* the reply texts of a run: a plain answer and an answer that names a plot
\* file.  A reply that asks for tools has no text.
ReplyTexts(reqs) ==
    IF reqs # << >> THEN { << >> }
    ELSE { << "Done" >>,
           << "Plot", " ", "data/plots/", "plot_9f3a", ".png" >> }

---------------------------------------------------------------------------
(* graph.py: agent_node, should_continue *)

AIMessage(content, tool_calls) ==
    [type |-> "ai", content |-> content, tool_calls |-> tool_calls,
     tool_call_id |-> << >>, name |-> ""]

\* the requests one reply can carry: a registered tool with arguments that
\* pass its schema ("valid") or do not ("invalid"), and an unregistered name.
\* The chat model gives every request a fresh id, here <<position of the
\* reply in the history, position in the reply>>
Requests ==
    { [name |-> "spatial_join", args |-> "valid"],
      [name |-> "spatial_join", args |-> "invalid"],
      [name |-> "delete_everything", args |-> "valid"] }

ToolCalls(reqs, turn) ==
    [j \in 1..Len(reqs) |->
        [id |-> <<turn, j>>, name |-> reqs[j].name, args |-> reqs[j].args]]

\* assistant messages of the history that carry tool-call requests
AiToolTurns(msgs) ==
    Cardinality({ i \in 1..Len(msgs) : msgs[i].type = "ai" /\ msgs[i].tool_calls # << >> })

\* a messages channel without the reducer: the update overwrites the history
AddMessages_overwrite(old, update) == update

\* the reducer of AgentState.messages (operator.add)
AddMessages(old, update) == old \o update

\* a conditional edge that never ends the run
should_continue_always_tools(msgs) == "tools"

should_continue(msgs) ==
    IF msgs[Len(msgs)].tool_calls # << >> THEN "tools" ELSE END

\* interface.py lines 25-39: every chunk the chat model streams is added to
\* final_answer, which is never reset during the run
Stream(text, chunks) == text \o chunks

\* agent.invoke returns a reply; the node's update is applied and the
\* conditional edge is evaluated on the updated state
agent_node ==
    /\ stage = "agent"
    /\ \E reqs \in SeqsUpTo(Requests, MaxCalls) :
        /\ reqs # << >> => AiToolTurns(messages) < MaxRounds
        /\ \E content \in ReplyTexts(reqs) :
             LET reply == AIMessage(PostProcess(content), ToolCalls(reqs, Len(messages) + 1))
             IN  /\ final_answer' = Stream(final_answer, content)
                 /\ events' = Append(events,
                        log_step("agent",
                                 [messages |-> [i \in 1..Len(messages) |-> messages[i].content]],
                                 [response |-> reply.content]))
                 /\ messages' = AddMessages(messages, << reply >>)
                 /\ stage' = should_continue(messages')
    /\ UNCHANGED <<relevant_datasets, answers, exception, run_id, response>>
    /\ UNCHANGED nonRun

\* agent.invoke raises (the chat model's error): the exception leaves app.invoke
agent_node_raises ==
    /\ stage = "agent"
    /\ exception' = "ReasoningClientError"
    /\ stage' = "error"
    /\ UNCHANGED <<messages, relevant_datasets, answers, run_id, response, obsVars>>
    /\ UNCHANGED nonRun

---------------------------------------------------------------------------
(* graph.py: tool_node *)

\* a tool message that does not carry the id of the request it answers
ToolMessage_no_id(tool_call_id, content, name) ==
    [type |-> "tool", content |-> content, tool_calls |-> << >>,
     tool_call_id |-> << >>, name |-> name]

ToolMessage(tool_call_id, content, name) ==
    [type |-> "tool", content |-> content, tool_calls |-> << >>,
     tool_call_id |-> tool_call_id, name |-> name]

\* what a tool's body returns: its result, or the "Error ..." text of its own
\* try/except (tools.py)
ToolResults == { << "result" >>, << "Error" >> }

\* tool_func.invoke(tool_args): the arguments are validated against the tool's
\* schema before its body runs, and a validation error is raised to the caller
InvokeRaises(tool_call) == tool_call.args = "invalid"

\* the loop of lines 151-161 from request j on: the responses gathered, or
\* raised = TRUE when an invoke raised
RECURSIVE RunToolCalls(_, _, _, _)
RunToolCalls(tool_calls, j, results, responses) ==
    IF j > Len(tool_calls) THEN [raised |-> FALSE, responses |-> responses]
    ELSE LET tool_call == tool_calls[j]
         IN  IF tool_call.name \in TOOL_MAP
             THEN IF InvokeRaises(tool_call)
                  THEN [raised |-> TRUE, responses |-> responses]
                  ELSE RunToolCalls(tool_calls, j + 1, results,
                           Append(responses,
                                  [tool_call_id |-> tool_call.id, name |-> tool_call.name,
                                   content |-> results[j]]))
             ELSE RunToolCalls(tool_calls, j + 1, results, responses)

ToolMessages(responses) ==
    [i \in 1..Len(responses) |->
        ToolMessage(responses[i].tool_call_id, responses[i].content, responses[i].name)]

\* the tool_execution entries of lines 150-161: one per response gathered,
\* written right after the response
ToolEvents(tool_calls, responses) ==
    [i \in 1..Len(responses) |->
        LET tool_call == CHOOSE c \in { tool_calls[j] : j \in 1..Len(tool_calls) } :
                             c.id = responses[i].tool_call_id
        IN  log_step("tool_execution",
                     [tool |-> tool_call.name, args |-> tool_call.args],
                     [result |-> responses[i].content])]

tool_node ==
    /\ stage = "tools"
    /\ LET last_message == messages[Len(messages)]
       IN  IF last_message.tool_calls = << >>
           THEN /\ stage' = EdgeAfterTools
                /\ UNCHANGED <<messages, exception, events>>
           ELSE \E results \in [1..Len(last_message.tool_calls) -> ToolResults] :
                   LET run == RunToolCalls(last_message.tool_calls, 1, results, << >>)
                   IN  /\ events' = events \o ToolEvents(last_message.tool_calls, run.responses)
                       /\ IF run.raised
                          THEN /\ exception' = "ToolInvocationError"
                               /\ stage' = "error"
                               /\ UNCHANGED messages
                          ELSE /\ messages' = AddMessages(messages, ToolMessages(run.responses))
                               /\ stage' = EdgeAfterTools
                               /\ UNCHANGED exception
    /\ UNCHANGED <<relevant_datasets, answers, run_id, response, final_answer>>
    /\ UNCHANGED nonRun

---------------------------------------------------------------------------
(* api.py: query_agent around app.invoke *)

Pending == [status |-> 0, body |-> [detail |-> << >>]]

\* the answer taken from the first message of the result
Answer_first_message(msgs) == msgs[1].content

\* result["messages"][-1].content
Answer(msgs) == msgs[Len(msgs)].content

\* app.invoke returned: the answer and the run id go back with status 200
query_agent_returns ==
    /\ stage = END
    /\ response = Pending
    /\ response' = [status |-> 200,
                    body |-> [answer |-> Answer(messages), run_id |-> run_id]]
    /\ events' = Append(events,
           log_step("api_request", [question |-> messages[1].content],
                    [answer |-> Answer(messages), run_id |-> run_id]))
    /\ UNCHANGED <<stage, messages, relevant_datasets, answers, exception, run_id, final_answer>>
    /\ UNCHANGED nonRun

\* app.invoke raised: HTTPException(status_code=500, detail=str(e))
query_agent_raises ==
    /\ stage = "error"
    /\ response = Pending
    /\ response' = [status |-> 500, body |-> [detail |-> Text(exception)]]
    /\ UNCHANGED <<stage, messages, relevant_datasets, answers, exception, run_id, obsVars>>
    /\ UNCHANGED nonRun

---------------------------------------------------------------------------
(* observability.py: the rating store *)

Raters == 1..MaxRaters

\* the entry save_rating builds from its arguments and the clock
Entry(rid, rating, comment, now) ==
    [run_id |-> rid, rating |-> rating, comment |-> comment, timestamp |-> now]

\* logs/ratings.json: missing, holding the JSON list save_rating dumped, or
\* emptied by open(rating_file, "w") and not written yet
NoFile == [exists |-> FALSE, valid |-> FALSE, records |-> << >>]
JsonFile(records) == [exists |-> TRUE, valid |-> TRUE, records |-> records]
Truncated == [exists |-> TRUE, valid |-> FALSE, records |-> << >>]

\* records left by earlier sessions
OldEntries == << Entry("run-0", 4, << >>, 0), Entry("run-0", 2, Text("slow"), 0) >>

StoredFiles == { NoFile, Truncated, JsonFile(<< >>), JsonFile(OldEntries) }

\* what a caller submits: the id of a run, or one no run ever had
SubmittedIds == { "run-1", "r-404" }
SubmittedRatings == { 1, 5 }
SubmittedComments == { << >>, Text("good") }

\* the load that never reads the file
LoadRatings_fresh(file) == << >>

\* lines 40-46: the list in the file; [] when the file is missing or json.load
\* raises JSONDecodeError
LoadRatings(file) ==
    IF file.exists /\ file.valid THEN file.records ELSE << >>

IdleRater ==
    [pc |-> "idle", entry |-> Entry("", 0, << >>, 0), ratings |-> << >>,
     before |-> NoFile, alone |-> FALSE, status |-> "none"]

Active(p) == raters[p].pc \in { "loaded", "opened" }

\* datetime.now(): later calls read a later clock
Now == Cardinality({ q \in Raters : raters[q].pc # "idle" }) + 1

\* lines 32-48: build the entry, load the list, append the entry to it.
\* before and alone record what the call found and whether another call
\* overlapped it.
save_rating_load(p) ==
    /\ raters[p].pc = "idle"
    /\ \E rid \in SubmittedIds, rating \in SubmittedRatings, comment \in SubmittedComments :
          LET entry == Entry(rid, rating, comment, Now)
          IN  raters' = [q \in Raters |->
                  IF q = p
                  THEN [pc |-> "loaded", entry |-> entry,
                        ratings |-> Append(LoadRatings(rating_file), entry),
                        before |-> rating_file,
                        alone |-> \A o \in Raters \ { p } : ~Active(o),
                        status |-> "none"]
                  ELSE IF Active(q) THEN [raters[q] EXCEPT !.alone = FALSE]
                  ELSE raters[q]]
    /\ UNCHANGED rating_file
    /\ UNCHANGED nonRate

\* line 50: open(rating_file, "w") creates the file or empties it
save_rating_open(p) ==
    /\ raters[p].pc = "loaded"
    /\ rating_file' = Truncated
    /\ raters' = [raters EXCEPT ![p].pc = "opened"]
    /\ UNCHANGED nonRate

\* line 51 and the return to rate_run / rate_answer
save_rating_dump(p) ==
    /\ raters[p].pc = "opened"
    /\ rating_file' = JsonFile(raters[p].ratings)
    /\ raters' = [raters EXCEPT ![p].pc = "done", ![p].status = "success"]
    /\ UNCHANGED nonRate

RateIdle == rating_file = NoFile /\ raters = [p \in Raters |-> IdleRater]

---------------------------------------------------------------------------
(* tools.py: spatial_join, attribute_join and _save_temp_gdf *)

\* the datasets of the data directory, and a path that names no file
DataPaths == { << "data/x/a.geojson" >>, << "data/x/b.geojson" >> }
MissingPath == << "data/x/none.geojson" >>

\* line 13: filename = f"data/{name_prefix}_result.geojson"
ResultPath(name_prefix) == << "data/", name_prefix, "_result.geojson" >>

JoinPaths ==
    DataPaths \cup { MissingPath, ResultPath("spatial_join"), ResultPath("attr_join"),
                     ResultPath("nearest") }

\* the data directory before any tool ran: each dataset holds its own rows
DataFiles == [path \in JoinPaths |-> IF path \in DataPaths THEN path ELSE << >>]

\* lines 11-23: write the frame to the file of the prefix and return its path
SaveTempGdf(fs, gdf, name_prefix) ==
    [fs |-> [fs EXCEPT ![ResultPath(name_prefix)] = gdf],
     filename |-> ResultPath(name_prefix)]

\* a join tool's body: read both files, join, save; any exception (here: a
\* missing file) becomes the returned "Error ..." text
JoinTool(name, op, name_prefix, left_file, right_file) ==
    IF files[left_file] = << >> \/ files[right_file] = << >>
    THEN [fs |-> files,
          out |-> [name |-> name, ok |-> FALSE, result |-> << "Error" >>, joined |-> << >>]]
    ELSE LET joined == << op >> \o files[left_file] \o files[right_file]
             saved == SaveTempGdf(files, joined, name_prefix)
         IN  [fs |-> saved.fs,
              out |-> [name |-> name, ok |-> TRUE, result |-> saved.filename, joined |-> joined]]

spatial_join ==
    /\ Len(returned) < MaxJoins
    /\ \E left_file, right_file \in JoinPaths :
          LET call == JoinTool("spatial_join", "sjoin", "spatial_join", left_file, right_file)
          IN  /\ files' = call.fs
              /\ returned' = Append(returned, call.out)
    /\ UNCHANGED nonJoin

attribute_join ==
    /\ Len(returned) < MaxJoins
    /\ \E left_file, right_file \in JoinPaths :
          LET call == JoinTool("attribute_join", "merge", "attr_join", left_file, right_file)
          IN  /\ files' = call.fs
              /\ returned' = Append(returned, call.out)
    /\ UNCHANGED nonJoin

JoinIdle == files = DataFiles /\ returned = << >>

---------------------------------------------------------------------------
(* Runs served at the same time: api.query_agent and interface.query_agent
   each call the compiled graph on inputs of their own *)

Runs == 1..MaxRuns

\* every request asks its own question, and the store answers it with a
\* dataset no other question retrieves; the boundary query returns a shared one
RunQuestion(r) == << "question", ToString(r) >>
RunDoc(r) == [filename |-> ToString(r), source |-> ToString(r)]
SharedDoc == [filename |-> "b.geojson", source |-> "data/x/b.geojson"]

SharedStore ==
    [q \in QueryStrings \cup { RunQuestion(r) : r \in Runs } |->
        IF \E r \in Runs : q = RunQuestion(r)
        THEN << RunDoc(CHOOSE r \in Runs : q = RunQuestion(r)) >>
        ELSE IF q = SUPPLEMENTAL[1].query THEN << SharedDoc >>
        ELSE << >>]

\* one state for all invocations
Slot_shared(r) == 1

\* the state an invocation works on: built from its own inputs, one per call
Slot(r) == r

NoState == [messages |-> << >>, relevant_datasets |-> << >>]

\* app.invoke(inputs) starts a run on {"messages": [HumanMessage(question)]}
run_invoke(r) ==
    /\ run_stage[r] = "idle"
    /\ LET inputs == [messages |-> << HumanMessage(RunQuestion(r)) >>,
                      relevant_datasets |-> << >>]
       IN  /\ states' = [states EXCEPT ![Slot(r)] = inputs]
           /\ wrote' = [wrote EXCEPT ![r] = inputs]
    /\ run_stage' = [run_stage EXCEPT ![r] = ENTRY_POINT]
    /\ UNCHANGED nonMulti

\* retrieve_node on the state of run r
run_retrieve(r) ==
    /\ run_stage[r] = "retrieve"
    /\ LET state == states[Slot(r)]
           datasets == MergeDatasets(state.messages[Len(state.messages)].content)
       IN  /\ states' = [states EXCEPT ![Slot(r)].relevant_datasets = datasets]
           /\ wrote' = [wrote EXCEPT ![r].relevant_datasets = datasets]
    /\ run_stage' = [run_stage EXCEPT ![r] = EdgeAfterRetrieve]
    /\ UNCHANGED nonMulti

\* agent_node on the state of run r: the chat model asks for one join or
\* answers the question the history starts with
run_agent(r) ==
    /\ run_stage[r] = "agent"
    /\ LET state == states[Slot(r)]
       IN  \E reqs \in SeqsUpTo({ [name |-> "spatial_join", args |-> "valid"] }, 1) :
             /\ reqs # << >> => AiToolTurns(state.messages) < MaxRounds
             /\ LET content == IF reqs # << >> THEN << >>
                               ELSE << "answer to" >> \o state.messages[1].content
                    reply == AIMessage(PostProcess(content),
                                       ToolCalls(reqs, Len(state.messages) + 1))
                    updated == AddMessages(state.messages, << reply >>)
                IN  /\ states' = [states EXCEPT ![Slot(r)].messages = updated]
                    /\ wrote' = [wrote EXCEPT ![r].messages = @ \o << reply >>]
                    /\ run_stage' = [run_stage EXCEPT ![r] = should_continue(updated)]
    /\ UNCHANGED nonMulti

\* tool_node on the state of run r
run_tools(r) ==
    /\ run_stage[r] = "tools"
    /\ LET state == states[Slot(r)]
           last_message == state.messages[Len(state.messages)]
       IN  \E results \in [1..Len(last_message.tool_calls) -> ToolResults] :
             LET run == RunToolCalls(last_message.tool_calls, 1, results, << >>)
                 replies == ToolMessages(run.responses)
             IN  /\ states' = [states EXCEPT
                                  ![Slot(r)].messages = AddMessages(state.messages, replies)]
                 /\ wrote' = [wrote EXCEPT ![r].messages = @ \o replies]
    /\ run_stage' = [run_stage EXCEPT ![r] = EdgeAfterTools]
    /\ UNCHANGED nonMulti

RunsIdle ==
    /\ run_stage = [r \in Runs |-> "idle"]
    /\ states = [r \in Runs |-> NoState]
    /\ wrote = [r \in Runs |-> NoState]

---------------------------------------------------------------------------
(* Tool calls of runs served at the same time, on the one data directory *)

\* the tools that save their result with _save_temp_gdf, with the operation
\* and the prefix they pass
SavingTools ==
    { [name |-> "spatial_join", op |-> "sjoin", name_prefix |-> "spatial_join"],
      [name |-> "attribute_join", op |-> "merge", name_prefix |-> "attr_join"],
      [name |-> "find_nearest", op |-> "sjoin_nearest", name_prefix |-> "nearest"] }

NoPath == [path |-> << >>, joined |-> << >>]

\* run r calls spatial_join, attribute_join or find_nearest on two datasets
\* and is returned the path of the result
call_join(r) ==
    /\ held[r] = NoPath
    /\ \E tool \in SavingTools, left_file, right_file \in DataPaths :
          LET call == JoinTool(tool.name, tool.op, tool.name_prefix, left_file, right_file)
          IN  /\ files' = call.fs
              /\ held' = [held EXCEPT ![r] = [path |-> call.out.result,
                                              joined |-> call.out.joined]]
    /\ UNCHANGED read_back
    /\ UNCHANGED nonCall

\* the next tool call of run r reads the path it was returned: load_geojson,
\* or another saving tool with that path as its left file
call_next(r) ==
    /\ held[r] # NoPath
    /\ read_back[r] = << >>
    /\ read_back' = [read_back EXCEPT ![r] = files[held[r].path]]
    /\ \/ UNCHANGED files
       \/ \E tool \in SavingTools, right_file \in DataPaths :
             files' = JoinTool(tool.name, tool.op, tool.name_prefix,
                               held[r].path, right_file).fs
    /\ UNCHANGED held
    /\ UNCHANGED nonCall

CallsIdle == held = [r \in Runs |-> NoPath] /\ read_back = [r \in Runs |-> << >>]

---------------------------------------------------------------------------
(* rag.py: ingestion into the vector store, and the search *)

\* data directories without two files of the same name
DataDirs ==
    { dir \in SUBSET Docs :
        /\ dir # { }
        /\ \A d, e \in dir : d.filename = e.filename => d = e }

\* the descriptors of a set of files, in the order glob lists them
RECURSIVE Listed(_)
Listed(dir) ==
    IF dir = { } THEN << >>
    ELSE LET d == CHOOSE e \in dir : TRUE
         IN  << d >> \o Listed(dir \ { d })

\* add_documents without ids: every document is a new entry
add_documents(docs, documents) == docs \o documents

\* lines 83-108: the metadata of every file of the data directory is added
ingest_metadata ==
    /\ ingests < MaxIngests
    /\ collection' = add_documents(collection, Listed(data_dir))
    /\ ingests' = ingests + 1
    /\ UNCHANGED <<data_dir, hits>>
    /\ UNCHANGED nonCatalog

\* tests/force_ingest.py: the metadata of one file is added directly
force_ingest ==
    /\ ingests < MaxIngests
    /\ \E meta \in data_dir :
          collection' = add_documents(collection, << meta >>)
    /\ ingests' = ingests + 1
    /\ UNCHANGED <<data_dir, hits>>
    /\ UNCHANGED nonCatalog

\* the results of similarity_search(query, k): k entries of the collection,
\* all of them if it has no more, whichever the ranking prefers
Nearest(docs, k) ==
    { [i \in 1..Len(picked) |-> docs[picked[i]]] :
        picked \in { p \in SeqsUpTo(1..Len(docs), Min(k, Len(docs))) :
                       /\ Len(p) = Min(k, Len(docs))
                       /\ \A i \in 1..(Len(p) - 1) : p[i] < p[i + 1] } }

\* retrieve_datasets with the default k on the collection as it is
catalog_query ==
    /\ hits' \in Nearest(collection, K_DEFAULT)
    /\ UNCHANGED <<data_dir, collection, ingests>>
    /\ UNCHANGED nonCatalog

CatalogIdle ==
    /\ data_dir = { }
    /\ collection = << >>
    /\ ingests = 0
    /\ hits = << >>

---------------------------------------------------------------------------
(* The workflow: app.invoke on a question *)

\* the variables of the other specifications, at rest
PostIdle == reply_in = << >> /\ reply_out = << >> /\ passes = 0
ReplayIdle == earlier = << >> /\ replays = 0

\* api.query_agent has drawn the run id and built the inputs of app.invoke
InitRun(store, ids) ==
    /\ stage = ENTRY_POINT
    /\ messages = << HumanMessage(Question) >>
    /\ relevant_datasets = << >>
    /\ answers \in store
    /\ exception = "none"
    /\ run_id \in ids
    /\ response = Pending
    /\ events = << >>
    /\ final_answer = << >>

Init ==
    /\ InitRun(AnswerSets(1, 0), { "run-1" })
    /\ PostIdle
    /\ ReplayIdle
    /\ RateIdle
    /\ JoinIdle
    /\ RunsIdle
    /\ CallsIdle
    /\ CatalogIdle

Next ==
    \/ retrieve_node
    \/ retrieve_node_raises
    \/ agent_node
    \/ agent_node_raises
    \/ tool_node
    \/ query_agent_returns
    \/ query_agent_raises

Spec == Init /\ [][Next]_vars

(* retrieve_node alone, over every answer of the vector store within the bounds *)

InitRetrieve ==
    /\ InitRun(AnswerSets(MaxPrimaryHits, MaxSuppHits), { "run-1" })
    /\ PostIdle
    /\ ReplayIdle
    /\ RateIdle
    /\ JoinIdle
    /\ RunsIdle
    /\ CallsIdle
    /\ CatalogIdle

NextRetrieve == retrieve_node

SpecRetrieve == InitRetrieve /\ [][NextRetrieve]_vars

(* retrieve_node run again on the same question against the same store *)

\* the graph is invoked once more with the same inputs; what the retrieval
\* before it returned is kept for comparison
invoke_again ==
    /\ stage = EdgeAfterRetrieve
    /\ replays < MaxReplays
    /\ earlier' = relevant_datasets
    /\ replays' = replays + 1
    /\ stage' = ENTRY_POINT
    /\ messages' = << HumanMessage(Question) >>
    /\ relevant_datasets' = << >>
    /\ UNCHANGED <<answers, exception, run_id, response, events>>
    /\ UNCHANGED nonReplay

NextReplay ==
    \/ retrieve_node
    \/ invoke_again

SpecReplay == InitRetrieve /\ [][NextReplay]_vars

(* agent_node's post-processing alone, applied twice to every reply text
   within the bounds *)

\* no request is being served through the single-run variables
NoRequest ==
    /\ stage = "idle"
    /\ messages = << >>
    /\ relevant_datasets = << >>
    /\ exception = "none"
    /\ run_id = ""
    /\ response = Pending
    /\ events = << >>
    /\ final_answer = << >>

RunIdle == NoRequest /\ answers = << >>

\* what a reply text is made of: single tokens and two plot paths
Parts ==
    { << " " >>, << "\"" >>, << "![" >>, << "data/plots/" >>, << ".png" >>, << "plot_9f3a" >>,
      << "data/plots/", "plot_9f3a", ".png" >>, << "data/plots/", "plot_2", ".png" >> }

RECURSIVE Flatten(_)
Flatten(parts) ==
    IF parts = << >> THEN << >> ELSE parts[1] \o Flatten(Tail(parts))

Texts == { Flatten(parts) : parts \in SeqsUpTo(Parts, MaxParts) }

InitPost ==
    /\ RunIdle
    /\ ReplayIdle
    /\ RateIdle
    /\ JoinIdle
    /\ RunsIdle
    /\ CallsIdle
    /\ CatalogIdle
    /\ reply_in \in Texts
    /\ reply_out = reply_in
    /\ passes = 0

\* one pass of lines 112-127 over the text
post_process ==
    /\ passes < 2
    /\ reply_out' = PostProcess(reply_out)
    /\ passes' = passes + 1
    /\ UNCHANGED reply_in
    /\ UNCHANGED nonPost

NextPost == post_process

SpecPost == InitPost /\ [][NextPost]_vars

(* save_rating called from the API and from the UI's worker threads, on every
   file an earlier session can have left *)

InitRate ==
    /\ RunIdle
    /\ PostIdle
    /\ ReplayIdle
    /\ JoinIdle
    /\ RunsIdle
    /\ CallsIdle
    /\ CatalogIdle
    /\ rating_file \in StoredFiles
    /\ raters = [p \in Raters |-> IdleRater]

NextRate ==
    \E p \in Raters :
        \/ save_rating_load(p)
        \/ save_rating_open(p)
        \/ save_rating_dump(p)

SpecRate == InitRate /\ [][NextRate]_vars

(* the join tools called one after another on the data directory *)

InitJoins ==
    /\ RunIdle
    /\ PostIdle
    /\ ReplayIdle
    /\ RateIdle
    /\ RunsIdle
    /\ CallsIdle
    /\ CatalogIdle
    /\ JoinIdle

NextJoins ==
    \/ spatial_join
    \/ attribute_join

SpecJoins == InitJoins /\ [][NextJoins]_vars

(* MaxRuns runs of the graph in flight at once *)

InitRuns ==
    /\ NoRequest
    /\ answers = SharedStore
    /\ PostIdle
    /\ ReplayIdle
    /\ RateIdle
    /\ JoinIdle
    /\ RunsIdle
    /\ CallsIdle
    /\ CatalogIdle

NextRuns ==
    \E r \in Runs :
        \/ run_invoke(r)
        \/ run_retrieve(r)
        \/ run_agent(r)
        \/ run_tools(r)

SpecRuns == InitRuns /\ [][NextRuns]_vars

(* the tool calls of MaxRuns runs on the data directory *)

InitCalls ==
    /\ RunIdle
    /\ PostIdle
    /\ ReplayIdle
    /\ RateIdle
    /\ JoinIdle
    /\ RunsIdle
    /\ CatalogIdle
    /\ held = [r \in Runs |-> NoPath]
    /\ read_back = [r \in Runs |-> << >>]

NextCalls ==
    \E r \in Runs :
        \/ call_join(r)
        \/ call_next(r)

SpecCalls == InitCalls /\ [][NextCalls]_vars

(* ingestions and searches, over every data directory within the bounds *)

InitCatalog ==
    /\ RunIdle
    /\ PostIdle
    /\ ReplayIdle
    /\ RateIdle
    /\ JoinIdle
    /\ RunsIdle
    /\ CallsIdle
    /\ data_dir \in DataDirs
    /\ collection = << >>
    /\ ingests = 0
    /\ hits = << >>

NextCatalog ==
    \/ ingest_metadata
    \/ force_ingest
    \/ catalog_query

SpecCatalog == InitCatalog /\ [][NextCatalog]_vars

\* the same runs, every collaborator returning: app.invoke keeps executing
\* the next node of a run it has started until the run is at END
FairRuns ==
    \A r \in Runs : WF_vars(run_retrieve(r) \/ run_agent(r) \/ run_tools(r))

SpecRunsLive == InitRuns /\ [][NextRuns]_vars /\ FairRuns

---------------------------------------------------------------------------
(* Properties of the tool dispatch stage and of the routing *)

IsAiToolTurn(i) == messages[i].type = "ai" /\ messages[i].tool_calls # << >>

\* tool_node has run on the assistant message at position i
Dispatched(i) == IsAiToolTurn(i) /\ (i < Len(messages) \/ stage # "tools")

\* the tool messages that follow position i without a gap
RECURSIVE RepliesAfter(_)
RepliesAfter(i) ==
    IF i + 1 <= Len(messages) /\ messages[i + 1].type = "tool"
    THEN << messages[i + 1] >> \o RepliesAfter(i + 1)
    ELSE << >>

\* an invoke of the batch raises, so tool_node does not return
BatchRaises(calls) ==
    \E j \in 1..Len(calls) : calls[j].name \in TOOL_MAP /\ InvokeRaises(calls[j])

\* C1: every dispatch that returns, on an assistant message with N tool-call
\* requests (registered or not), produces exactly N tool replies in request
\* order, the i-th reply carrying the i-th request's id.
C1_OneReplyPerRequest ==
    \A i \in 1..Len(messages) :
        (Dispatched(i) /\ ~BatchRaises(messages[i].tool_calls)) =>
            LET calls == messages[i].tool_calls
                replies == RepliesAfter(i)
            IN  /\ Len(replies) = Len(calls)
                /\ \A j \in 1..Len(calls) : replies[j].tool_call_id = calls[j].id

\* C2: a request that names a tool outside the registry is answered by an
\* error-text reply carrying that request's id.
C2_UnknownToolReply ==
    \A i \in 1..Len(messages) :
        Dispatched(i) =>
            \A j \in 1..Len(messages[i].tool_calls) :
                LET call == messages[i].tool_calls[j]
                    replies == RepliesAfter(i)
                IN  call.name \notin TOOL_MAP =>
                        \E r \in 1..Len(replies) :
                            /\ replies[r].tool_call_id = call.id
                            /\ replies[r].content = << "Error" >>

\* C3: a registered tool whose invocation raises is answered by an error-text
\* reply carrying the request's id, and the failure does not leave the
\* dispatch stage: the run is not aborted.
C3_ToolFailureContained ==
    \A i \in 1..Len(messages) :
        Dispatched(i) =>
            \A j \in 1..Len(messages[i].tool_calls) :
                LET call == messages[i].tool_calls[j]
                    replies == RepliesAfter(i)
                IN  (call.name \in TOOL_MAP /\ InvokeRaises(call)) =>
                        /\ stage # "error"
                        /\ \E r \in 1..Len(replies) :
                               /\ replies[r].tool_call_id = call.id
                               /\ replies[r].content = << "Error" >>

\* C4: once a chat model that asks for a tool on every Reason step has asked
\* more than StepCap times, the run is in the MaxStepsExceeded terminal state.
C4_MaxStepsExceededAtCap ==
    ( /\ \A i \in 1..Len(messages) : messages[i].type = "ai" => messages[i].tool_calls # << >>
      /\ AiToolTurns(messages) > StepCap )
    => stage = "MaxStepsExceeded"

\* C5: the step that appends the assistant message goes to tools iff that
\* message carries a tool-call request, to END iff it carries none, and
\* nowhere else.
C5_RouteAfterReason ==
    [][ (stage = "agent" /\ Len(messages') = Len(messages) + 1) =>
            LET last_message == messages'[Len(messages')]
            IN  /\ last_message.type = "ai"
                /\ stage' \in { "tools", END }
                /\ stage' = "tools" <=> last_message.tool_calls # << >>
                /\ stage' = END <=> last_message.tool_calls = << >> ]_vars

\* a run that was routed to tools, came back, and was then routed to END
C5_Witness ==
    /\ stage = END
    /\ AiToolTurns(messages) >= 1
    /\ messages[Len(messages)].type = "ai"
    /\ messages[Len(messages)].tool_calls = << >>

\* C21: every step of tool_node goes to the agent, and the history the
\* agent then starts from is the history before, which ends with the
\* assistant message that made the requests, followed by tool replies to
\* requests of that message and nothing else.
C21_DispatchThenReason ==
    [][ stage = "tools" =>
            /\ stage' = "agent"
            /\ IsAiToolTurn(Len(messages))
            /\ Len(messages') >= Len(messages)
            /\ SubSeq(messages', 1, Len(messages)) = messages
            /\ \A k \in (Len(messages) + 1)..Len(messages') :
                  /\ messages'[k].type = "tool"
                  /\ \E j \in 1..Len(messages[Len(messages)].tool_calls) :
                         messages[Len(messages)].tool_calls[j].id = messages'[k].tool_call_id ]_vars

\* the requests of the batches tool_node has run on and returned from, from
\* position i of the history on, in order
RECURSIVE ReturnedRequests(_)
ReturnedRequests(i) ==
    IF i > Len(messages) THEN << >>
    ELSE IF Dispatched(i) /\ ~BatchRaises(messages[i].tool_calls)
         THEN messages[i].tool_calls \o ReturnedRequests(i + 1)
         ELSE ReturnedRequests(i + 1)

IsToolExecution(entry) == entry.step = "tool_execution"

\* C22: the log holds one tool_execution entry per request of every batch
\* whose dispatch returned, in request order, with the request's tool name
\* and arguments and a result or error text.
C22_OneEventPerRequest ==
    LET requests == ReturnedRequests(1)
        logged == SelectSeq(events, IsToolExecution)
    IN  /\ Len(logged) = Len(requests)
        /\ \A k \in 1..Len(requests) :
              /\ logged[k].input.tool = requests[k].name
              /\ logged[k].input.args = requests[k].args
              /\ logged[k].output.result # << >>

\* the assistant message before position k that is nearest to it
NearestAi(k) ==
    CHOOSE i \in 1..(k - 1) :
        /\ messages[i].type = "ai"
        /\ \A m \in (i + 1)..(k - 1) : messages[m].type # "ai"

\* C23: every tool message carries the id of a request of the nearest
\* assistant message before it, and no request is answered by two tool messages.
C23_RepliesCorrelated ==
    \A k \in 1..Len(messages) :
        messages[k].type = "tool" =>
            /\ \E i \in 1..(k - 1) : messages[i].type = "ai"
            /\ \E j \in 1..Len(messages[NearestAi(k)].tool_calls) :
                   messages[NearestAi(k)].tool_calls[j].id = messages[k].tool_call_id
            /\ \A m \in 1..Len(messages) :
                   (m # k /\ messages[m].type = "tool")
                       => messages[m].tool_call_id # messages[k].tool_call_id

\* two batches dispatched, the first with two requests that were both answered
C23_Witness ==
    /\ AiToolTurns(messages) >= 2
    /\ \E i \in 1..Len(messages) :
           /\ IsAiToolTurn(i)
           /\ Len(messages[i].tool_calls) = 2
           /\ Len(RepliesAfter(i)) = 2
    /\ \E i \in 1..Len(messages) :
           /\ IsAiToolTurn(i)
           /\ i > 3
           /\ Len(RepliesAfter(i)) >= 1

---------------------------------------------------------------------------
(* Properties of the state: the dataset list and the message history *)

IsPrefix(s, t) == Len(s) <= Len(t) /\ SubSeq(t, 1, Len(s)) = s

\* C6: the run starts at retrieve, retrieve_node runs once (no step enters
\* retrieve again, and the step that leaves it goes to the agent, or aborts
\* the run, without touching the history), and no later step changes
\* relevant_datasets.
C6_RetrieveOnceThenFrozen ==
    /\ stage = "retrieve"
    /\ [][ /\ stage' = "retrieve" => stage = "retrieve"
           /\ stage = "retrieve" => (stage' \in { "agent", "error" } /\ messages' = messages)
           /\ stage # "retrieve" => relevant_datasets' = relevant_datasets ]_vars

\* a finished run that retrieved a descriptor and went through Reason and Dispatch
C6_Witness ==
    /\ stage = END
    /\ relevant_datasets # << >>
    /\ \E i \in 1..Len(messages) : messages[i].type = "tool"

\* C7: every step leaves the message history a prefix of the new history.
C7_MessagesAppendOnly ==
    [][ IsPrefix(messages, messages') ]_vars

\* a history that Reason and Dispatch have both extended, twice
C7_Witness ==
    /\ AiToolTurns(messages) >= 2
    /\ Cardinality({ i \in 1..Len(messages) : messages[i].type = "tool" }) >= 2
    /\ stage = END

---------------------------------------------------------------------------
(* Properties of retrieve_node's merge *)

PrimaryResults == answers[Question]

SupplementalResults == ConcatResults(1)

\* the first descriptor of each filename, in order of first occurrence
RECURSIVE FirstByFilename(_, _)
FirstByFilename(ds, seen) ==
    IF ds = << >> THEN << >>
    ELSE IF ds[1].filename \in seen THEN FirstByFilename(Tail(ds), seen)
         ELSE << ds[1] >> \o FirstByFilename(Tail(ds), seen \cup { ds[1].filename })

\* C8: the merged dataset list holds no two descriptors of equal filename.
C8_NoDuplicateFilename ==
    stage # "retrieve" =>
        \A i, j \in 1..Len(relevant_datasets) :
            i # j => relevant_datasets[i].filename # relevant_datasets[j].filename

\* C9: the merged list starts with the primary query's results, in the
\* order the store returned them, and every descriptor after them comes from
\* a supplemental query and has a filename the primary results do not have.
C9_PrimaryFirst ==
    stage # "retrieve" =>
        /\ IsPrefix(PrimaryResults, relevant_datasets)
        /\ \A i \in (Len(PrimaryResults) + 1)..Len(relevant_datasets) :
              /\ \E j \in 1..Len(SupplementalResults) :
                     SupplementalResults[j] = relevant_datasets[i]
              /\ \A j \in 1..Len(PrimaryResults) :
                     PrimaryResults[j].filename # relevant_datasets[i].filename

\* a merge of a non-empty primary result with a supplemental contribution
C9_Witness ==
    /\ stage # "retrieve"
    /\ Len(PrimaryResults) >= 1
    /\ Len(relevant_datasets) > Len(PrimaryResults)
    /\ \E j \in 1..Len(SupplementalResults) :
           SupplementalResults[j].filename = PrimaryResults[1].filename

\* C10: the merged list is the first-occurrence-by-filename filtering of
\* primary ++ boundaries ++ POI ++ culture ++ general ++ noise ++ housing.
C10_FirstSeenOfConcatenation ==
    stage # "retrieve" =>
        relevant_datasets = FirstByFilename(PrimaryResults \o SupplementalResults, { })

Filenames(ds) == { ds[i].filename : i \in 1..Len(ds) }

C20_SupplementalsIncluded ==
    stage # "retrieve" =>
        Filenames(relevant_datasets) =
            UNION { Filenames(answers[q]) : q \in QueryStrings }

\* a filename that only the housing query returned is in the merged list
C20_Witness ==
    /\ stage # "retrieve"
    /\ \E f \in Filenames(answers[SUPPLEMENTAL[Len(SUPPLEMENTAL)].query]) :
           /\ \A q \in QueryStrings \ { SUPPLEMENTAL[Len(SUPPLEMENTAL)].query } :
                  f \notin Filenames(answers[q])
           /\ f \in Filenames(relevant_datasets)

---------------------------------------------------------------------------
(* Properties of api.query_agent *)

\* C12: after a query of the vector store has failed, the run is over: no
\* Reason step has run (the history holds no assistant message), no dataset
\* list was stored, and the caller gets no answer but the failure.
C12_RetrievalFailureEndsRun ==
    exception = "RetrievalError" =>
        /\ stage = "error"
        /\ \A i \in 1..Len(messages) : messages[i].type # "ai"
        /\ relevant_datasets = << >>
        /\ response.status \in { 0, 500 }
        /\ response.status = 500 => response.body.detail = Text("RetrievalError")

\* the caller has received the retrieval failure
C12_Witness ==
    /\ exception = "RetrievalError"
    /\ response.status = 500

\* C13: the response to a failed run carries a descriptive error string and
\* the run's identifier, and is not a success.
C13_FailureCarriesRunId ==
    (stage = "error" /\ response # Pending) =>
        /\ response.status # 200
        /\ "detail" \in DOMAIN response.body
        /\ response.body.detail # << >>
        /\ "run_id" \in DOMAIN response.body
        /\ response.body.run_id = run_id

\* C14: a successful response belongs to a run that reached END; its answer
\* is the post-processed content of the last message of the history, an
\* assistant message without tool-call requests, and its run id is the
\* request's.
C14_AnswerIsFinalReply ==
    response.status = 200 =>
        LET last_message == messages[Len(messages)]
        IN  /\ stage = END
            /\ last_message.type = "ai"
            /\ last_message.tool_calls = << >>
            /\ response.body.answer = last_message.content
            /\ PostProcess(response.body.answer) = response.body.answer
            /\ response.body.run_id = run_id

\* an answer with the appended plot reference, after a dispatch
C14_Witness ==
    /\ response.status = 200
    /\ AiToolTurns(messages) >= 1
    /\ Contains(response.body.answer, "Generated")

\* C26: the text the streaming interface has yielded last when the run is
\* over is the answer the API returns for that run.
C26_StreamEqualsAnswer ==
    response.status = 200 => final_answer = response.body.answer

---------------------------------------------------------------------------
(* Properties of the post-processing *)

\* positions i..j of c hold data/plots/, then one or more characters that are
\* neither whitespace nor a double quote, then .png
IsPathAt(c, i, j) ==
    /\ c[i] = "data/plots/"
    /\ j >= i + 2
    /\ c[j] = ".png"
    /\ \A m \in (i + 1)..(j - 1) : c[m] \notin { " ", "\n\n", "\"" }

HasPath(c) == \E i, j \in 1..Len(c) : IsPathAt(c, i, j)

\* the leftmost path of c, taken as far as it extends
FirstPath(c) ==
    LET starts == { i \in 1..Len(c) : \E j \in 1..Len(c) : IsPathAt(c, i, j) }
        first == CHOOSE i \in starts : \A k \in starts : i <= k
        last == CHOOSE j \in 1..Len(c) :
                    /\ IsPathAt(c, first, j)
                    /\ \A k \in 1..Len(c) : IsPathAt(c, first, k) => k <= j
    IN  SubSeq(c, first, last)

CountOf(c, t) == Cardinality({ i \in 1..Len(c) : c[i] = t })

\* C15: a text with a plot path and no image reference gets exactly one
\* reference, to its first path, appended; a text that already holds an
\* image reference is left as it is; a second pass changes nothing.
C15_PostProcessIdempotent ==
    /\ [](passes >= 1 =>
            /\ (HasPath(reply_in) /\ ~Contains(reply_in, "![")) =>
                   /\ reply_out = reply_in \o << "\n\n", "![", "Generated", " ", "Plot](" >>
                                           \o FirstPath(reply_in) \o << ")" >>
                   /\ CountOf(reply_out, "![") = 1
            /\ Contains(reply_in, "![") => reply_out = reply_in)
    /\ [][passes >= 1 => reply_out' = reply_out]_vars

\* two passes over a text with two plot paths, which got one reference
C15_Witness ==
    /\ passes = 2
    /\ reply_in = << "data/plots/", "plot_2", ".png", " ", "data/plots/", "plot_9f3a", ".png" >>
    /\ Len(reply_out) = Len(reply_in) + 9

---------------------------------------------------------------------------
(* Properties of the rating store *)

Readable(file) == ~file.exists \/ file.valid

Stored(file) == IF file.exists THEN file.records ELSE << >>

\* C16: a save_rating that no other call overlapped and that found a
\* readable store returns success and leaves the records it found, in their
\* order, followed by one record with the submitted run id, rating and
\* comment, whatever the run id.
C16_RatingAppended ==
    [][\A p \in Raters :
          (/\ raters[p].pc = "opened"
           /\ raters'[p].pc = "done"
           /\ raters[p].alone
           /\ Readable(raters[p].before))
          => /\ raters'[p].status = "success"
             /\ rating_file'.exists /\ rating_file'.valid
             /\ Len(rating_file'.records) = Len(Stored(raters[p].before)) + 1
             /\ SubSeq(rating_file'.records, 1, Len(Stored(raters[p].before)))
                    = Stored(raters[p].before)
             /\ LET new == rating_file'.records[Len(rating_file'.records)]
                IN  /\ new.run_id = raters[p].entry.run_id
                    /\ new.rating = raters[p].entry.rating
                    /\ new.comment = raters[p].entry.comment]_vars

\* a rating for r-404 saved alone after the two old records
C16_Witness ==
    \E p \in Raters :
        /\ raters[p].pc = "done"
        /\ raters[p].alone
        /\ raters[p].before = JsonFile(OldEntries)
        /\ raters[p].entry.run_id = "r-404"
        /\ rating_file = JsonFile(Append(OldEntries, raters[p].entry))

\* C17: when all the concurrent save_rating calls have completed, the store
\* holds the record of every one of them.
C17_NoRatingLost ==
    (\A p \in Raters : raters[p].pc = "done") =>
        \A p \in Raters :
            \E i \in 1..Len(rating_file.records) :
                rating_file.records[i] = raters[p].entry

---------------------------------------------------------------------------
(* Properties of the join tools *)

\* C19: a successful join returns a path no earlier join returned, and the
\* path of every successful join still holds that join's result.
C19_JoinReturnsNewPath ==
    \A j \in 1..Len(returned) :
        returned[j].ok =>
            /\ \A i \in 1..(j - 1) : returned[i].ok => returned[i].result # returned[j].result
            /\ files[returned[j].result] = returned[j].joined

---------------------------------------------------------------------------
(* Properties of concurrent runs *)

\* the stage changes of Retrieve, Reason, (Dispatch, Reason)*, Done
StageSteps ==
    { << "idle", "retrieve" >>, << "retrieve", "agent" >>, << "agent", "tools" >>,
      << "tools", "agent" >>, << "agent", END >> }

\* C24: with every collaborator returning and a chat model that stops asking
\* for tools (here after MaxRounds batches at the latest), every run that was
\* started reaches END, and its stages follow
\* Retrieve, Reason, (Dispatch, Reason)*, Done.
C24_RunReachesDone ==
    /\ [][\A r \in Runs :
             run_stage'[r] # run_stage[r] => << run_stage[r], run_stage'[r] >> \in StageSteps]_vars
    /\ \A r \in Runs : (run_stage[r] = "retrieve") ~> (run_stage[r] = END)

\* a run at END that went through Dispatch MaxRounds times
C24_Witness ==
    \E r \in Runs :
        /\ run_stage[r] = END
        /\ AiToolTurns(states[Slot(r)].messages) = MaxRounds

\* the text mentions the question of run o
Mentions(content, o) ==
    \E i \in 1..(Len(content) - 1) :
        content[i] = "question" /\ content[i + 1] = ToString(o)

\* C18: the state of every run in flight holds what the steps of that run
\* put there and nothing else: no message about another run's question and
\* no dataset only another run's question retrieves.
C18_StateOwnedByOneRun ==
    \A r \in Runs :
        run_stage[r] # "idle" =>
            LET state == states[Slot(r)]
            IN  /\ state.messages = wrote[r].messages
                /\ state.relevant_datasets = wrote[r].relevant_datasets
                /\ \A o \in Runs \ { r } :
                      /\ \A i \in 1..Len(state.messages) :
                             ~Mentions(state.messages[i].content, o)
                      /\ \A i \in 1..Len(state.relevant_datasets) :
                             state.relevant_datasets[i] # RunDoc(o)

\* two runs in flight, one about to dispatch tools, the other about to
\* reason on a tool result, each with its own datasets
C18_Witness ==
    \E r, o \in Runs :
        /\ r # o
        /\ run_stage[r] = "tools"
        /\ run_stage[o] = "agent"
        /\ Len(states[Slot(o)].messages) >= 3
        /\ \E i \in 1..Len(states[Slot(r)].relevant_datasets) :
               states[Slot(r)].relevant_datasets[i] = RunDoc(r)
        /\ \E i \in 1..Len(states[Slot(o)].relevant_datasets) :
               states[Slot(o)].relevant_datasets[i] = SharedDoc

---------------------------------------------------------------------------
(* Properties of the tool calls of concurrent runs *)

\* C25: what the next tool call of a run reads at the path the run was
\* returned is the result that was saved for that run.
C25_ResultFileKept ==
    \A r \in Runs : read_back[r] # << >> => read_back[r] = held[r].joined

---------------------------------------------------------------------------
(* Properties of the catalog *)

\* C27: after any ingestions the collection holds at most one descriptor
\* per filename, and no search returns two descriptors of one filename.
C27_OneDescriptorPerFilename ==
    /\ \A i, j \in 1..Len(collection) :
          i # j => collection[i].filename # collection[j].filename
    /\ \A i, j \in 1..Len(hits) :
          i # j => hits[i].filename # hits[j].filename

====
